---- MODULE Spec2Model ----
(***************************************************************************)
(* A model of pr-reviewer.js: one run of the pull-request reviewer.        *)
(*                                                                         *)
(* The run is the module's top-level await chain: the environment check,   *)
(* loadPromptFromFile, reviewPR (which starts fetchPRDetails and           *)
(* fetchPRDiffs and joins them with Promise.all), reviewAllDiffs and the   *)
(* final message or process.exit(1).                                       *)
(*                                                                         *)
(* Text that the code inspects (the raw diff, the segments, the file names *)
(* and the patches) is a sequence of one-character strings.  Text that is  *)
(* only concatenated (the review, the decision, the reason) is a string.   *)
(***************************************************************************)
EXTENDS Integers, Sequences, FiniteSets, TLC

VARIABLES
    env,            \* process.env restricted to the required variables
    pc,             \* position of the top-level await chain
    reviewPrompt,   \* text returned by loadPromptFromFile
    metaTask,       \* promise of fetchPRDetails: idle, pending, resolved, rejected
    diffTask,       \* promise of fetchPRDiffs:   idle, pending, resolved, rejected
    metaData,       \* value fetchPRDetails resolved with
    rawDiff,        \* data of the getDiff response
    diffs,          \* value fetchPRDiffs resolved with (the parsed FileDiffs)
    prDetails,      \* reviewPR's destructured prDetails (after the join)
    formattedDiffs, \* reviewAllDiffs' formattedDiffs
    modelCall,      \* the axios.post: its state and the messages sent
    response,       \* what the await of axios.post produced
    reviewResult,   \* value reviewAllDiffs returned
    report,         \* value reviewPR returned
    successMsg,     \* 'Review completed successfully.' was printed
    error,          \* the error travelling up the catch chain
    exited,         \* the process has ended
    exitCode,       \* its exit status
    events          \* history: the I/O and stage events of the run, in order

vars == <<env, pc, reviewPrompt, metaTask, diffTask, metaData, rawDiff, diffs,
          prDetails, formattedDiffs, modelCall, response, reviewResult, report,
          successMsg, error, exited, exitCode, events>>

(***************************************************************************)
(* Bounds                                                                  *)
(***************************************************************************)
\* A raw diff is the concatenation of at most MaxPieces pieces of Pieces.
MaxPieces == 4

(***************************************************************************)
(* JavaScript values                                                       *)
(***************************************************************************)
Undefined == [type |-> "undefined"]
Str(s) == [type |-> "string", value |-> s]

\* interpolation of v in a template literal
ToText(v) == IF v = Undefined THEN "undefined" ELSE v.value

\* !v for a string or undefined
Falsy(v) == v = Undefined \/ v = Str("")

Min(S) == CHOOSE x \in S : \A y \in S : x <= y
Max(S) == CHOOSE x \in S : \A y \in S : x >= y

(***************************************************************************)
(* Text operations used by the diff parsing                                *)
(***************************************************************************)
\* the separator given to split: 'diff --git'
Delim == <<"d", "i", "f", "f", " ", "-", "-", "g", "i", "t">>

\* the fallback filename 'unknown'
Unknown == <<"u", "n", "k", "n", "o", "w", "n">>

\* the characters String.prototype.trim removes that occur in the model
WhiteSpace == {" ", "\n", "\t", "\r"}

\* indices at which t occurs in s
Occurrences(s, t) ==
    {i \in 1..(Len(s) - Len(t) + 1) : SubSeq(s, i, i + Len(t) - 1) = t}

\* String.prototype.split with a non-empty string separator
RECURSIVE Split(_, _)
Split(s, sep) ==
    LET occ == Occurrences(s, sep) IN
    IF occ = {} THEN <<s>>
    ELSE LET i == Min(occ) IN
         <<SubSeq(s, 1, i - 1)>> \o Split(SubSeq(s, i + Len(sep), Len(s)), sep)

\* Boolean(s) for a string: the empty string is the only falsy one
Truthy(s) == s # <<>>

\* String.prototype.trim
Trim(s) ==
    LET keep == {i \in 1..Len(s) : s[i] \notin WhiteSpace} IN
    IF keep = {} THEN <<>> ELSE SubSeq(s, Min(keep), Max(keep))

\* fileDiff.match(/(?:a\/|b\/)([^\n]+)/)?.[1] ?? 'unknown'
\* The leftmost index where "a/" or "b/" is followed by a character other
\* than a newline starts the match; the group is greedy up to the newline.
ExtractFilename(fileDiff) ==
    LET starts == {i \in 1..(Len(fileDiff) - 2) :
                      /\ fileDiff[i] \in {"a", "b"}
                      /\ fileDiff[i + 1] = "/"
                      /\ fileDiff[i + 2] # "\n"} IN
    IF starts = {} THEN Unknown
    ELSE LET i == Min(starts)
             e == Max({j \in (i + 2)..Len(fileDiff) :
                          \A k \in (i + 2)..j : fileDiff[k] # "\n"})
         IN SubSeq(fileDiff, i + 2, e)

\* data.split('diff --git').filter(Boolean)
Segments(data) == SelectSeq(Split(data, Delim), Truthy)

\* data.split('diff --git').filter(Boolean).map(fileDiff => ({filename, patch}))
ParseDiff(data) ==
    LET segs == Segments(data) IN
    [i \in 1..Len(segs) |->
        [filename |-> ExtractFilename(segs[i]), patch |-> Trim(segs[i])]]

(***************************************************************************)
(* reviewAllDiffs: the prompt and the formatted review                     *)
(***************************************************************************)
\* the code fence of the template (three grave accents), kept as one fragment
Fence == "<fence>"

\* the template literal of one file block (header line, fenced patch); the
\* fixed parts of the template are kept as whole fragments.
DiffBlock(diff) ==
    <<"\n\n### File: ">> \o diff.filename \o <<"\n", Fence, "diff\n">>
        \o diff.patch \o <<"\n", Fence>>

\* Array.prototype.join with the newline separator
RECURSIVE JoinLines(_)
JoinLines(blocks) ==
    IF blocks = <<>> THEN <<>>
    ELSE IF Len(blocks) = 1 THEN blocks[1]
    ELSE blocks[1] \o <<"\n">> \o JoinLines(Tail(blocks))

\* diffs.map(diff => block).join(newline)
FormatDiffs(ds) == JoinLines([i \in 1..Len(ds) |-> DiffBlock(ds[i])])

\* the decision criteria appended to the rules guide in the system message
DecisionCriteria ==
    "\n\nAfter reviewing the code, you must submit a code review with comments and a decision. Base your decision on the following criteria:"
    \o "\n- APPROVE: No significant issues found, code is ready to merge"
    \o "\n- APPROVE_WITH_COMMENTS: Minor issues that should be addressed but are not blocking"
    \o "\n- DECLINE: Critical issues or multiple moderate issues that must be fixed before merging"

\* the messages of the request body
RequestMessages(bestPracticesPrompt, formatted) ==
    [system |-> ToText(bestPracticesPrompt) \o DecisionCriteria,
     user   |-> <<"Please review the following code changes from a pull request:\n">>
                    \o formatted]

\* FormatReview with the blank line before the trailer left out
FormatReviewNoBlankLine(args) ==
    ToText(args.review) \o "\nDECISION: " \o ToText(args.decision)
        \o "\nREASON: " \o ToText(args.reason)

\* the template literal of the formatted review
FormatReview(args) ==
    ToText(args.review) \o "\n\nDECISION: " \o ToText(args.decision)
        \o "\nREASON: " \o ToText(args.reason)

\* the object reviewAllDiffs returns for the decoded arguments
ReviewOf(args) ==
    [reviewText |-> Str(FormatReview(args)),
     decision   |-> args.decision,
     reason     |-> args.reason]

(***************************************************************************)
(* Inputs of a run                                                         *)
(***************************************************************************)
RequiredEnvVars ==
    {"BITBUCKET_USERNAME", "BITBUCKET_APP_PASSWORD", "BITBUCKET_WORKSPACE",
     "BITBUCKET_REPO", "PR_NUMBER", "AI_API_KEY"}

\* a variable is unset, set to the empty string, or set
EnvValues == {Undefined, Str(""), Str("set")}

\* MissingEnvVars with AI_API_KEY left out of the required list
MissingEnvVarsNoApiKey(e) ==
    {v \in RequiredEnvVars \ {"AI_API_KEY"} : e[v] = Undefined \/ e[v] = Str("")}

\* requiredEnvVars.filter(varName => !process.env[varName])
MissingEnvVars(e) == {v \in RequiredEnvVars : Falsy(e[v])}

\* outcomes of fs.readFile on the prompt file
FileReads == {[ok |-> TRUE, text |-> "Follow the style guide."], [ok |-> FALSE]}

\* the pieces raw diffs are made of: the section marker, an old and a new
\* path, a line break and a changed line
Pieces ==
    {Delim, <<" ", "a", "/", "x">>, <<" ", "b", "/", "y">>, <<"\n">>, <<"+", "z">>}

RECURSIVE TextsUpTo(_)
TextsUpTo(n) ==
    IF n = 0 THEN {<<>>}
    ELSE LET shorter == TextsUpTo(n - 1) IN
         shorter \cup {p \o t : p \in Pieces, t \in shorter}

\* the raw diff texts the host may answer with
RawDiffs == TextsUpTo(MaxPieces)

\* outcomes of pullrequests.getDiff
DiffResponses ==
    {[ok |-> TRUE, data |-> d] : d \in RawDiffs} \cup {[ok |-> FALSE]}

\* outcomes of pullrequests.get: full metadata, no description, no author
MetaResponses ==
    {[ok |-> TRUE,
      data |-> [title |-> Str("Fix"), author |-> a, description |-> d]] :
        a \in {[display_name |-> Str("Ann")], Undefined},
        d \in {Str("Why"), Undefined}}
    \cup {[ok |-> FALSE]}

\* the enum of the decision parameter in the function schema
Decisions == {"APPROVE", "APPROVE_WITH_COMMENTS", "DECLINE"}

\* the values the model may put in the function-call arguments
ReviewValues == {Str("Looks fine")}
DecisionValues ==
    {Str("APPROVE"), Str("APPROVE_WITH_COMMENTS"), Str("DECLINE"), Str("MAYBE"),
     Undefined}
ReasonValues == {Str("no issues"), Undefined}

\* outcomes of axios.post: a transport failure, a message without
\* function_call, arguments that are not JSON, or decoded arguments
ModelResponses ==
    {[kind |-> "transportError"], [kind |-> "noFunctionCall"], [kind |-> "badJSON"]}
    \cup {[kind |-> "functionCall",
           args |-> [review |-> r, decision |-> d, reason |-> w]] :
             r \in ReviewValues, d \in DecisionValues, w \in ReasonValues}

(***************************************************************************)
(* The run                                                                 *)
(***************************************************************************)
Init ==
    /\ env \in [RequiredEnvVars -> EnvValues]
    /\ pc = "validate"
    /\ reviewPrompt = Undefined
    /\ metaTask = "idle"
    /\ diffTask = "idle"
    /\ metaData = Undefined
    /\ rawDiff = <<>>
    /\ diffs = <<>>
    /\ prDetails = Undefined
    /\ formattedDiffs = <<>>
    /\ modelCall = [state |-> "idle"]
    /\ response = Undefined
    /\ reviewResult = Undefined
    /\ report = Undefined
    /\ successMsg = FALSE
    /\ error = "none"
    /\ exited = FALSE
    /\ exitCode = 0
    /\ events = <<>>

\* a throw that reaches the catch of the entry point
Throw(e) ==
    /\ error' = e
    /\ pc' = "catch"

\* the check of the required environment variables
ValidateEnv ==
    /\ pc = "validate"
    /\ IF MissingEnvVars(env) # {}
       THEN Throw("MissingEnv")
       ELSE pc' = "loadPrompt" /\ UNCHANGED error
    /\ UNCHANGED <<env, reviewPrompt, metaTask, diffTask, metaData, rawDiff, diffs,
                   prDetails, formattedDiffs, modelCall, response, reviewResult, report,
                   successMsg, exited, exitCode, events>>

\* loadPromptFromFile: the text of the file, or a throw
LoadPrompt ==
    /\ pc = "loadPrompt"
    /\ \E r \in FileReads :
          IF r.ok
          THEN /\ reviewPrompt' = Str(r.text)
               /\ pc' = "reviewPR"
               /\ UNCHANGED error
          ELSE /\ Throw("PromptFile")
               /\ UNCHANGED reviewPrompt
    /\ UNCHANGED <<env, metaTask, diffTask, metaData, rawDiff, diffs, prDetails,
                   formattedDiffs, modelCall, response, reviewResult, report, successMsg,
                   exited, exitCode, events>>

\* reviewPR calls fetchPRDetails and fetchPRDiffs; each sends its request and
\* suspends; reviewPR awaits Promise.all of the two promises
StartFetches ==
    /\ pc = "reviewPR"
    /\ metaTask' = "pending"
    /\ diffTask' = "pending"
    /\ pc' = "awaitAll"
    /\ events' = events \o <<"metaReq", "diffReq">>
    /\ UNCHANGED <<env, reviewPrompt, metaData, rawDiff, diffs, prDetails,
                   formattedDiffs, modelCall, response, reviewResult, report, successMsg,
                   error, exited, exitCode>>

\* PromiseAll behaving as Promise.allSettled: it waits for both promises and
\* resolves whatever their outcomes
PromiseAllSettled(m, d) ==
    IF m \in {"resolved", "rejected"} /\ d \in {"resolved", "rejected"}
    THEN "resolved" ELSE "pending"

\* PromiseAll behaving as Promise.race: it settles with the first promise
PromiseRace(m, d) ==
    IF m = "resolved" \/ d = "resolved" THEN "resolved"
    ELSE IF m = "rejected" \/ d = "rejected" THEN "rejected"
    ELSE "pending"

\* Promise.all of the two fetch promises
PromiseAll(m, d) ==
    IF m = "rejected" \/ d = "rejected" THEN "rejected"
    ELSE IF m = "resolved" /\ d = "resolved" THEN "resolved"
    ELSE "pending"

\* the continuation of fetchPRDetails when its response arrives.  A response
\* is handled only while reviewPR is suspended on a pending Promise.all: a
\* settled Promise.all resumes reviewPR before any later response.
MetaResponse ==
    /\ pc = "awaitAll"
    /\ metaTask = "pending"
    /\ PromiseAll(metaTask, diffTask) = "pending"
    /\ \E r \in MetaResponses :
          IF r.ok
          THEN /\ metaTask' = "resolved"
               /\ metaData' = r.data
               /\ events' = Append(events, "metaOk")
          ELSE /\ metaTask' = "rejected"
               /\ events' = Append(events, "metaFail")
               /\ UNCHANGED metaData
    /\ UNCHANGED <<env, pc, reviewPrompt, diffTask, rawDiff, diffs, prDetails,
                   formattedDiffs, modelCall, response, reviewResult, report, successMsg,
                   error, exited, exitCode>>

\* the continuation of fetchPRDiffs when its response arrives: the diff text
\* is parsed there, before the promise resolves
DiffResponse ==
    /\ pc = "awaitAll"
    /\ diffTask = "pending"
    /\ PromiseAll(metaTask, diffTask) = "pending"
    /\ \E r \in DiffResponses :
          IF r.ok
          THEN /\ rawDiff' = r.data
               /\ diffs' = ParseDiff(r.data)
               /\ diffTask' = "resolved"
               /\ events' = events \o <<"diffOk", "parse">>
          ELSE /\ diffTask' = "rejected"
               /\ events' = Append(events, "diffFail")
               /\ UNCHANGED <<rawDiff, diffs>>
    /\ UNCHANGED <<env, pc, reviewPrompt, metaTask, metaData, prDetails,
                   formattedDiffs, modelCall, response, reviewResult, report, successMsg,
                   error, exited, exitCode>>

\* reviewPR resumes from the await of Promise.all: with both values, or with
\* the rejection, which its catch rethrows
JoinAll ==
    /\ pc = "awaitAll"
    /\ PromiseAll(metaTask, diffTask) # "pending"
    /\ IF PromiseAll(metaTask, diffTask) = "resolved"
       THEN /\ prDetails' = metaData
            /\ pc' = "logPR"
            /\ events' = Append(events, "join")
            /\ UNCHANGED error
       ELSE /\ Throw(IF metaTask = "rejected" THEN "MetaFetch" ELSE "DiffFetch")
            /\ UNCHANGED <<prDetails, events>>
    /\ UNCHANGED <<env, reviewPrompt, metaTask, diffTask, metaData, rawDiff, diffs,
                   formattedDiffs, modelCall, response, reviewResult, report, successMsg,
                   exited, exitCode>>

\* the log of the PR information; prDetails.author.display_name throws a
\* TypeError when there is no author
LogPR ==
    /\ pc = "logPR"
    /\ IF prDetails = Undefined \/ prDetails.author = Undefined
       THEN Throw("TypeError")
       ELSE pc' = "reviewAllDiffs" /\ UNCHANGED error
    /\ UNCHANGED <<env, reviewPrompt, metaTask, diffTask, metaData, rawDiff, diffs,
                   prDetails, formattedDiffs, modelCall, response, reviewResult, report,
                   successMsg, exited, exitCode, events>>

\* reviewAllDiffs formats all diffs into one prompt
BuildPrompt ==
    /\ pc = "reviewAllDiffs"
    /\ formattedDiffs' = FormatDiffs(diffs)
    /\ pc' = "postModel"
    /\ events' = Append(events, "promptBuild")
    /\ UNCHANGED <<env, reviewPrompt, metaTask, diffTask, metaData, rawDiff, diffs,
                   prDetails, modelCall, response, reviewResult, report, successMsg, error,
                   exited, exitCode>>

\* reviewAllDiffs posts the request and suspends
PostModel ==
    /\ pc = "postModel"
    /\ modelCall' = [state |-> "pending",
                     messages |-> RequestMessages(reviewPrompt, formattedDiffs)]
    /\ pc' = "awaitModel"
    /\ events' = Append(events, "modelReq")
    /\ UNCHANGED <<env, reviewPrompt, metaTask, diffTask, metaData, rawDiff, diffs,
                   prDetails, formattedDiffs, response, reviewResult, report,
                   successMsg, error, exited, exitCode>>

\* reviewAllDiffs resumes from the await of axios.post: the rejection is
\* rethrown; otherwise the function call is read, its arguments are parsed
\* and the review is formatted and returned
ModelResponse ==
    /\ pc = "awaitModel"
    /\ modelCall.state = "pending"
    /\ \E r \in ModelResponses :
          /\ modelCall' = [modelCall EXCEPT !.state =
                              IF r.kind = "transportError" THEN "rejected"
                              ELSE "resolved"]
          /\ response' = r
          /\ events' = Append(events, IF r.kind = "transportError"
                                      THEN "modelFail" ELSE "modelOk")
          /\ CASE r.kind = "transportError" ->
                    Throw("ModelTransport") /\ UNCHANGED reviewResult
               [] r.kind = "noFunctionCall" ->
                    Throw("TypeError") /\ UNCHANGED reviewResult
               [] r.kind = "badJSON" ->
                    Throw("SyntaxError") /\ UNCHANGED reviewResult
               [] r.kind = "functionCall" ->
                    /\ reviewResult' = ReviewOf(r.args)
                    /\ pc' = "printReview"
                    /\ UNCHANGED error
    /\ UNCHANGED <<env, reviewPrompt, metaTask, diffTask, metaData, rawDiff, diffs,
                   prDetails, formattedDiffs, report, successMsg, exited,
                   exitCode>>

\* reviewPR prints the review and the decision banner and returns the report
ReturnReport ==
    /\ pc = "printReview"
    /\ report' = [prDetails |-> prDetails,
                  review    |-> reviewResult.reviewText,
                  decision  |-> reviewResult.decision,
                  reason    |-> reviewResult.reason]
    /\ pc' = "completed"
    /\ UNCHANGED <<env, reviewPrompt, metaTask, diffTask, metaData, rawDiff, diffs,
                   prDetails, formattedDiffs, modelCall, response, reviewResult, successMsg,
                   error, exited, exitCode, events>>

\* the entry point prints the success message; the process then ends with
\* its default status
PrintSuccess ==
    /\ pc = "completed"
    /\ successMsg' = TRUE
    /\ exited' = TRUE
    /\ pc' = "done"
    /\ UNCHANGED <<env, reviewPrompt, metaTask, diffTask, metaData, rawDiff, diffs,
                   prDetails, formattedDiffs, modelCall, response, reviewResult, report,
                   error, exitCode, events>>

\* Catch without the call of process.exit(1): the process ends on its own
CatchNoExit ==
    /\ pc = "catch"
    /\ exited' = TRUE
    /\ pc' = "exited"
    /\ UNCHANGED <<env, reviewPrompt, metaTask, diffTask, metaData, rawDiff, diffs,
                   prDetails, formattedDiffs, modelCall, response, reviewResult,
                   report, successMsg, error, exitCode, events>>

\* the catch of the entry point: process.exit(1)
Catch ==
    /\ pc = "catch"
    /\ exited' = TRUE
    /\ exitCode' = 1
    /\ pc' = "exited"
    /\ UNCHANGED <<env, reviewPrompt, metaTask, diffTask, metaData, rawDiff, diffs,
                   prDetails, formattedDiffs, modelCall, response, reviewResult, report,
                   successMsg, error, events>>

Next ==
    \/ ValidateEnv
    \/ LoadPrompt
    \/ StartFetches
    \/ MetaResponse
    \/ DiffResponse
    \/ JoinAll
    \/ LogPR
    \/ BuildPrompt
    \/ PostModel
    \/ ModelResponse
    \/ ReturnReport
    \/ PrintSuccess
    \/ Catch

Spec == Init /\ [][Next]_vars

(***************************************************************************)
(* Properties                                                              *)
(***************************************************************************)
Happened(e) == \E i \in DOMAIN events : events[i] = e

\* every occurrence of event b has an earlier occurrence of event a
Before(a, b) ==
    \A j \in DOMAIN events :
        events[j] = b => \E i \in 1..(j - 1) : events[i] = a

Times(e) == Cardinality({i \in DOMAIN events : events[i] = e})

EnumDecisions == {Str(d) : d \in Decisions}

\* C1: every ReviewDecision that reviewAllDiffs returns, and every report of
\* reviewPR, carries a decision that is APPROVE, APPROVE_WITH_COMMENTS or
\* DECLINE; any other or absent decision ends in an error instead.
C1_DecisionIsEnumerated ==
    /\ reviewResult # Undefined => reviewResult.decision \in EnumDecisions
    /\ report # Undefined => report.decision \in EnumDecisions

\* C2: once either fetch has failed, reviewPR is on its way out with the
\* error: no report exists, the success message is not printed, the model
\* call was never issued, and the process ends with status 1, also when the
\* other fetch had completed.
C2_FailedFetchRejects ==
    (metaTask = "rejected" \/ diffTask = "rejected") =>
        /\ pc \in {"awaitAll", "catch", "exited"}
        /\ pc # "awaitAll" => error \in {"MetaFetch", "DiffFetch"}
        /\ report = Undefined
        /\ reviewResult = Undefined
        /\ modelCall.state = "idle"
        /\ ~Happened("promptBuild")
        /\ ~Happened("modelReq")
        /\ ~successMsg
        /\ exited => exitCode = 1

\* the diff fetch fails after the metadata fetch had succeeded, and the run
\* has ended
C2_Witness ==
    /\ metaTask = "resolved"
    /\ diffTask = "rejected"
    /\ events = <<"metaReq", "diffReq", "metaOk", "diffFail">>
    /\ pc = "exited"

\* C3 as stated: the parse starts only after both fetches have completed,
\* and parse, prompt build and model call follow in that order.
C3_ParseAfterBothFetches ==
    /\ Before("metaOk", "parse")
    /\ Before("diffOk", "parse")
    /\ Before("parse", "promptBuild")
    /\ Before("promptBuild", "modelReq")

\* C3 as amended: the parse starts only after the diff fetch has completed
\* (the metadata fetch may still be pending); the prompt build starts only
\* after both fetches have completed, the parse is done and Promise.all has
\* joined them; the model call starts only after the prompt build.
C3_ParseAfterDiffFetch ==
    /\ Before("diffOk", "parse")
    /\ Before("metaOk", "promptBuild")
    /\ Before("diffOk", "promptBuild")
    /\ Before("parse", "promptBuild")
    /\ Before("join", "promptBuild")
    /\ Before("promptBuild", "modelReq")
    /\ Happened("parse") => diffTask = "resolved"
    /\ Happened("promptBuild") => metaTask = "resolved" /\ diffTask = "resolved"

\* the diff was parsed while the metadata fetch was pending, and the run
\* went on to the model call
C3_Witness ==
    /\ Happened("modelReq")
    /\ \E i, j \in DOMAIN events :
          i < j /\ events[i] = "parse" /\ events[j] = "metaOk"

\* the positions of the section markers in a raw diff
HeaderAt(s) == Occurrences(s, Delim)

NthHeader(s, i) ==
    CHOOSE q \in HeaderAt(s) : Cardinality({r \in HeaderAt(s) : r < q}) = i - 1

\* the text between the i-th marker and the next one (or the end)
SectionBody(s, i) ==
    LET last == IF i < Cardinality(HeaderAt(s))
                THEN NthHeader(s, i + 1) - 1 ELSE Len(s)
    IN SubSeq(s, NthHeader(s, i) + Len(Delim), last)

\* the record holds the section of the i-th marker, with or without the marker
IsRecordOf(rec, s, i) ==
    rec.patch \in {Trim(SectionBody(s, i)), Trim(Delim \o SectionBody(s, i))}

\* C5: a raw diff without a section marker parses into no record, and the
\* text before the first marker contributes nothing to the result.
C5_NoHeaderNoRecord ==
    diffTask = "resolved" =>
        IF HeaderAt(rawDiff) = {}
        THEN diffs = <<>>
        ELSE diffs = ParseDiff(SubSeq(rawDiff, Min(HeaderAt(rawDiff)), Len(rawDiff)))

\* the first line of a segment
HeaderLine(seg) ==
    LET nl == {i \in 1..Len(seg) : seg[i] = "\n"} IN
    IF nl = {} THEN seg ELSE SubSeq(seg, 1, Min(nl) - 1)

\* where " b/" starts in a header line of the form " a/<old> b/<new>"
NewPathMarks(h) ==
    {k \in 5..(Len(h) - 3) :
        /\ SubSeq(h, 1, 3) = <<" ", "a", "/">>
        /\ SubSeq(h, k, k + 2) = <<" ", "b", "/">>
        /\ \A j \in 4..(k - 1) : h[j] \notin WhiteSpace
        /\ \A j \in (k + 3)..Len(h) : h[j] \notin WhiteSpace}

HasGitHeader(seg) == NewPathMarks(HeaderLine(seg)) # {}

NewPath(seg) ==
    LET h == HeaderLine(seg) IN SubSeq(h, Min(NewPathMarks(h)) + 3, Len(h))

HasPathPrefix(seg) ==
    Occurrences(seg, <<"a", "/">>) \cup Occurrences(seg, <<"b", "/">>) # {}

\* C4, for raw diffs in which every section marker is followed by a header
\* line " a/<old> b/<new>": a raw diff with N section markers parses into
\* exactly N records, the i-th being the section of the i-th marker.
C4_OneRecordPerHeader ==
    LET n == Cardinality(HeaderAt(rawDiff)) IN
    (/\ diffTask = "resolved"
     /\ n >= 1
     /\ \A i \in 1..n : HasGitHeader(SectionBody(rawDiff, i))) =>
        /\ Len(diffs) = n
        /\ \A i \in 1..n : IsRecordOf(diffs[i], rawDiff, i)

\* the raw diff starts with a section marker, so that every segment is the
\* section of a marker
StartsWithMarker(s) == Len(s) >= Len(Delim) /\ SubSeq(s, 1, Len(Delim)) = Delim

\* C6: a segment whose header line is " a/<old> b/<new>" gets the filename
\* <new>; a segment without "a/" and "b/" gets the filename "unknown".
C6_FilenameIsNewPath ==
    (diffTask = "resolved" /\ StartsWithMarker(rawDiff)) =>
        \A i \in 1..Len(diffs) :
            LET seg == Segments(rawDiff)[i] IN
            /\ HasGitHeader(seg) => diffs[i].filename = NewPath(seg)
            /\ ~HasPathPrefix(seg) => diffs[i].filename = Unknown

\* C7, for the sections that have a header line " a/<old> b/<new>": the
\* patch of the record starts with the section marker.
C7_PatchStartsWithMarker ==
    (diffTask = "resolved" /\ StartsWithMarker(rawDiff)) =>
        \A i \in 1..Len(diffs) :
            HasGitHeader(Segments(rawDiff)[i]) =>
                /\ Len(diffs[i].patch) >= Len(Delim)
                /\ SubSeq(diffs[i].patch, 1, Len(Delim)) = Delim

WellFormed(args) ==
    /\ args.review # Undefined
    /\ args.reason # Undefined
    /\ args.decision \in EnumDecisions

\* C8: for a well-formed response, the returned decision and reason are the
\* response's, the review text is the review, a blank line, the DECISION line
\* and the REASON line, and the report carries the same three values.
C8_ReviewTextFormat ==
    (reviewResult # Undefined /\ WellFormed(response.args)) =>
        LET a == response.args
            text == a.review.value \o "\n\nDECISION: " \o a.decision.value
                        \o "\nREASON: " \o a.reason.value
        IN
        /\ reviewResult.decision = a.decision
        /\ reviewResult.reason = a.reason
        /\ reviewResult.reviewText = Str(text)
        /\ (a.decision = Str("APPROVE") =>
               reviewResult.reviewText
                   = Str("Looks fine\n\nDECISION: APPROVE\nREASON: no issues"))
        /\ (a.decision = Str("APPROVE_WITH_COMMENTS") =>
               reviewResult.reviewText
                   = Str("Looks fine\n\nDECISION: APPROVE_WITH_COMMENTS\nREASON: no issues"))
        /\ report # Undefined =>
               /\ report.review = reviewResult.reviewText
               /\ report.decision = a.decision
               /\ report.reason = a.reason

\* a well-formed APPROVE_WITH_COMMENTS response has reached the report
C8_Witness ==
    /\ report # Undefined
    /\ response.args = [review |-> Str("Looks fine"),
                        decision |-> Str("APPROVE_WITH_COMMENTS"),
                        reason |-> Str("no issues")]

====
